---- MODULE Spec2Model ----
(***************************************************************************)
(* Model of the demo App (App.tsx) that coordinates two native text-input  *)
(* wrappers, "legacy" (RCTViewManager) and "fabric" (JSI), each with a     *)
(* parent-rendered JavaScript fallback TextInput.                          *)
(*                                                                         *)
(* React semantics used by the model:                                      *)
(*  - an event handler runs to completion with the state values of the     *)
(*    last committed render (its closure);                                 *)
(*  - state setters called in a handler are applied when the handler ends, *)
(*    also when the handler ends by throwing;                              *)
(*  - a setter called with the current value schedules no render;          *)
(*  - the passive effects of the previous render are flushed before the    *)
(*    next render starts; an effect of an unmounted component never runs;  *)
(*  - a ref object is attached while its component is mounted and null     *)
(*    afterwards; a timer callback keeps the closure of the render that    *)
(*    created it (captured state values, the ref objects of that App       *)
(*    instance).                                                           *)
(***************************************************************************)
EXTENDS Integers, Sequences, FiniteSets, TLC

\* ---------------------------------------------------------------- bounds
\* pending setTimeout callbacks kept at once
MaxTimers == 2
\* availability notifications remembered per wrapper mount
MaxNotified == 2
\* outputs recorded per wrapper in a side-by-side run of the two wrappers
MaxTrace == 3
\* keystrokes and button presses of the user in a run with native widgets
MaxUser == 3

\* ------------------------------------------------------------- constants
Slots == {"legacy", "fabric"}

Kinds == {"native", "fallback"}

Handles == Slots \X Kinds

SampleText == "Hello Native Components!"

Texts == {"", "a", SampleText}

OtherSame(s) == s

Other(s) == IF s = "legacy" THEN "fabric" ELSE "legacy"

\* the slot clearInputs focuses after clearing
FirstSlot == "legacy"

VARIABLES
  mounted,        \* the App component is mounted
  native,         \* native[s]: requireNativeComponent succeeded for slot s
  text,           \* legacyText / fabricText
  avail,          \* isLegacyNativeAvailable / isFabricNativeAvailable
  inputRef,       \* legacyInputRef.current / fabricInputRef.current is set
  fallbackRef,    \* legacyFallbackRef.current / fabricFallbackRef.current is set
  effectDeps,     \* dependency list of the wrapper's useEffect at its last render
  effectPending,  \* the wrapper's useEffect is scheduled and has not run yet
  notifications,  \* onNativeStatusChange values sent during the wrapper's mount
  timers,         \* pending setTimeout callbacks of clearInputs, oldest first
  lastOp,         \* the handler that ran last
  cmds,           \* calls made through the refs by the handler that ran last
  surfaced,       \* the handler that ran last ended with an uncaught exception
  props,          \* side-by-side run: the callbacks passed to both wrappers
  twin,           \* side-by-side run: each wrapper's mount, effect and focus state
  out,            \* side-by-side run: each wrapper's callback calls and handle results
  delivered,      \* side-by-side run: the native change event delivered last
  widget,         \* widget run: the text each native EditText holds
  events,         \* widget run: native events on their way to JavaScript, oldest first
  setCalls,       \* widget run: the setValue calls the last render caused
  typed           \* widget run: number of keystrokes and button presses so far

twinVars == <<props, twin, out, delivered>>

echoVars == <<widget, events, setCalls, typed>>

appVars == <<mounted, native, text, avail, inputRef, fallbackRef, effectDeps,
             effectPending, notifications, timers, lastOp, cmds, surfaced>>

vars == <<mounted, native, text, avail, inputRef, fallbackRef, effectDeps,
          effectPending, notifications, timers, lastOp, cmds, surfaced,
          props, twin, out, delivered, widget, events, setCalls, typed>>

Op(o, s, t) == [op |-> o, slot |-> s, text |-> t]

Cmd(o, s, k, r) == [op |-> o, slot |-> s, kind |-> k, raised |-> r]

\* ------------------------------------------------------------ the wrapper
\* const isNativeAvailable = NativeTextInputComponent !== null
IsNativeAvailable(s) == native[s]

\* isNativeComponentAvailable() of the imperative handle
IsNativeComponentAvailable(s) == IsNativeAvailable(s)

\* the setter the App passes as onNativeStatusChange, named by the slot whose
\* flag it sets
StatusCallbackWrongSlot(s) == "fabric"

StatusCallback(s) == s

\* the value the wrapper's effect passes to onNativeStatusChange
ReportedStatusAlwaysTrue(s) == TRUE

ReportedStatus(s) == IsNativeAvailable(s)

\* [isNativeAvailable, onNativeStatusChange]
Deps(s) == <<IsNativeAvailable(s), StatusCallback(s)>>

\* useEffect runs again after a render only when a dependency changed
DepsChangedNoDeps(old, new) == TRUE

DepsChanged(old, new) == old # new

\* the wrapper renders the native widget, or null when the lookup failed
WrapperRendersOwnFallback(s) == IF ~IsNativeAvailable(s) THEN "fallback" ELSE "native"

WrapperRenders(s) == IF ~IsNativeAvailable(s) THEN "null" ELSE "native"

\* a call through a ref reaches a widget that can raise: always for the
\* fallback TextInput, only with a native widget attached for the wrapper
\* handle (textInputRef.current?.focus())
ReachesWidget(s, k) == k = "fallback" \/ WrapperRenders(s) = "native"

Raises(s, k, faulty) == <<s, k>> \in faulty /\ ReachesWidget(s, k)

\* the stand-alone wrapper NativeTextInput.tsx looks up the same native
\* component as the legacy wrapper and renders a TextInput itself when the
\* lookup failed
StandaloneRenders == IF ~native["legacy"] THEN "fallback" ELSE "native"

Wrappers == Slots \cup {"standalone"}

LookupFailed(w) == IF w = "standalone" THEN ~native["legacy"] ELSE ~IsNativeAvailable(w)

Renders(w) == IF w = "standalone" THEN StandaloneRenders ELSE WrapperRenders(w)

\* ---------------------------------------------------------------- the App
\* useState(true): the value of both flags before any report
InitialFlagFalse == FALSE

InitialFlag == TRUE

\* a flag no effect reported for keeps its value across renders (useState)
KeptFlagReset(x) == InitialFlag

KeptFlag(x) == avail[x]

\* setLegacyText(t) in handleLegacyChange, setFabricText(t) in handleFabricChange
ChangedTextWrongSlot(s, t) == [text EXCEPT ![Other(s)] = t]

ChangedText(s, t) == [text EXCEPT ![s] = t]

\* setLegacyText(''); setFabricText('') are the first statements of
\* clearInputs, so they are applied also when a later clear() throws
ClearedTextAfterCalls(threw) == IF threw THEN text ELSE [s \in Slots |-> ""]

ClearedText(threw) == [s \in Slots |-> ""]

\* which widget the App renders for a slot
RenderedAlwaysWrapper(flag) == "native"

Rendered(flag) == IF flag THEN "native" ELSE "fallback"

\* how the App reads a flag (isLegacyNativeAvailable ? ... : ...): a boolean,
\* there is no third value
IsAvailable(s) == IF avail[s] THEN "available" ELSE "unavailable"

\* ref.current of the closure's ref objects
RefSet(s, k) == IF k = "native" THEN inputRef[s] ELSE fallbackRef[s]

\* isXNativeAvailable ? xInputRef.current?.focus() : xFallbackRef.current?.focus()
FocusCmdsNoNullCheck(s, flag, live, faulty) ==
  LET k == IF flag THEN "native" ELSE "fallback"
  IN  <<Cmd("focus", s, k, Raises(s, k, faulty))>>

FocusCmdsWrongHandle(s, flag, live, faulty) ==
  LET k == "native"
  IN  IF live /\ RefSet(s, k)
        THEN <<Cmd("focus", s, k, Raises(s, k, faulty))>>
        ELSE <<>>

FocusCmds(s, flag, live, faulty) ==
  LET k == IF flag THEN "native" ELSE "fallback"
  IN  IF live /\ RefSet(s, k)
        THEN <<Cmd("focus", s, k, Raises(s, k, faulty))>>
        ELSE <<>>

\* handleLegacyChange / handleFabricChange: the focus calls of the handler
ChangeCmdsOnAnyEmpty(s, t, faulty) ==
  IF t = ""
    THEN FocusCmds(Other(s), avail[Other(s)], TRUE, faulty)
    ELSE <<>>

ChangeCmds(s, t, faulty) ==
  IF t = "" /\ text[Other(s)] # ""
    THEN FocusCmds(Other(s), avail[Other(s)], TRUE, faulty)
    ELSE <<>>

\* one slot's branch of clearInputs: the native clear() is inside try/catch,
\* the fallback clear() is not
ClearSlot(s, faulty) ==
  IF avail[s] /\ inputRef[s]
    THEN [cmds  |-> <<Cmd("clear", s, "native", Raises(s, "native", faulty))>>,
          threw |-> FALSE]
    ELSE IF fallbackRef[s]
      THEN [cmds  |-> <<Cmd("clear", s, "fallback", Raises(s, "fallback", faulty))>>,
            threw |-> Raises(s, "fallback", faulty)]
      ELSE [cmds |-> <<>>, threw |-> FALSE]

\* the calls of clearInputs up to its setTimeout
ClearRunSyncFocus(faulty) ==
  LET L == ClearSlot("legacy", faulty)
      F == ClearSlot("fabric", faulty)
  IN  IF L.threw THEN [cmds |-> L.cmds, threw |-> TRUE]
      ELSE IF F.threw THEN [cmds |-> L.cmds \o F.cmds, threw |-> TRUE]
      ELSE [cmds  |-> L.cmds \o F.cmds
                      \o FocusCmds(FirstSlot, avail[FirstSlot], TRUE, faulty),
            threw |-> FALSE]

ClearRun(faulty) ==
  LET L == ClearSlot("legacy", faulty)
      F == ClearSlot("fabric", faulty)
  IN  IF L.threw THEN [cmds |-> L.cmds, threw |-> TRUE]
      ELSE IF F.threw THEN [cmds |-> L.cmds \o F.cmds, threw |-> TRUE]
      ELSE [cmds |-> L.cmds \o F.cmds, threw |-> FALSE]

\* the closure setTimeout keeps: the flag of the render that ran clearInputs
\* and that App instance's refs (live until the App unmounts)
TimerOf(flag) == [avail |-> flag, live |-> TRUE]

AnyRaised(cs) == \E i \in 1..Len(cs) : cs[i].raised

Record(seq, v) == IF Len(seq) < MaxNotified THEN Append(seq, v) ELSE seq

\* the flags after the pending effects ran onNativeStatusChange
Flushed(pend) ==
  [x \in Slots |->
     IF \E s \in Slots : pend[s] /\ StatusCallback(s) = x
       THEN ReportedStatus(CHOOSE s \in Slots : pend[s] /\ StatusCallback(s) = x)
       ELSE KeptFlag(x)]

\* apply the handler's state updates: flush the pending effects if a render
\* is due (flush = TRUE when the scheduler runs them on its own), then render
Update(nt, flush) ==
  LET doFlush  == flush \/ nt # text
      pend     == IF doFlush THEN effectPending ELSE [s \in Slots |-> FALSE]
      na       == Flushed(pend)
      rerender == nt # text \/ na # avail
      rest     == [s \in Slots |-> effectPending[s] /\ ~pend[s]]
  IN  /\ text' = nt
      /\ avail' = na
      /\ inputRef' = [s \in Slots |-> Rendered(na[s]) = "native"]
      /\ fallbackRef' = [s \in Slots |-> Rendered(na[s]) = "fallback"]
      /\ effectDeps' = [s \in Slots |-> IF rerender THEN Deps(s) ELSE effectDeps[s]]
      /\ effectPending' =
           [s \in Slots |->
              /\ Rendered(na[s]) = "native"
              /\ \/ rest[s]
                 \/ rerender /\ DepsChanged(effectDeps[s], Deps(s))]
      /\ notifications' =
           [s \in Slots |->
              IF pend[s] THEN Record(notifications[s], ReportedStatus(s))
                         ELSE notifications[s]]

\* a widget that can emit change events is on screen for the slot
Emits(s) == (inputRef[s] /\ WrapperRenders(s) = "native") \/ fallbackRef[s]

\* ---------------------------------------------------------------- actions
\* no native change event was delivered in the last step
NoEvent == [text |-> "-", timestamp |-> 0]

\* no side-by-side run is in progress
TwinIdle ==
  /\ props = [onChangeText |-> TRUE, onNativeStatusChange |-> TRUE, statusId |-> 0]
  /\ twin = [w \in Slots |->
               [up |-> FALSE, pending |-> FALSE, focused |-> FALSE, deps |-> <<>>]]
  /\ out = [w \in Slots |-> <<>>]
  /\ delivered = NoEvent

\* no run with native widgets is in progress
EchoIdle ==
  /\ widget = [s \in Slots |-> ""]
  /\ events = <<>>
  /\ setCalls = <<>>
  /\ typed = 0

Init ==
  /\ TwinIdle
  /\ EchoIdle
  /\ mounted = TRUE
  /\ native \in [Slots -> BOOLEAN]
  /\ text = [s \in Slots |-> ""]
  /\ avail = [s \in Slots |-> InitialFlag]
  /\ inputRef = [s \in Slots |-> Rendered(InitialFlag) = "native"]
  /\ fallbackRef = [s \in Slots |-> Rendered(InitialFlag) = "fallback"]
  /\ effectDeps = [s \in Slots |-> Deps(s)]
  /\ effectPending = [s \in Slots |-> Rendered(InitialFlag) = "native"]
  /\ notifications = [s \in Slots |-> <<>>]
  /\ timers = <<>>
  /\ lastOp = Op("mount", "-", "")
  /\ cmds = <<>>
  /\ surfaced = FALSE

\* the scheduler runs the pending useEffect callbacks of the wrappers
EffectFire ==
  /\ UNCHANGED <<twinVars, echoVars>>
  /\ mounted
  /\ \E s \in Slots : effectPending[s]
  /\ Update(text, TRUE)
  /\ lastOp' = Op("effect", "-", "")
  /\ cmds' = <<>>
  /\ surfaced' = FALSE
  /\ UNCHANGED <<mounted, native, timers>>

\* handleLegacyChange(t) / handleFabricChange(t)
OnTextChanged(s, t, faulty) ==
  /\ UNCHANGED <<twinVars, echoVars>>
  /\ mounted
  /\ Emits(s)
  /\ cmds' = ChangeCmds(s, t, faulty)
  /\ surfaced' = AnyRaised(ChangeCmds(s, t, faulty))
  /\ Update(ChangedText(s, t), FALSE)
  /\ lastOp' = Op("change", s, t)
  /\ UNCHANGED <<mounted, native, timers>>

\* generateText
Generate ==
  /\ UNCHANGED <<twinVars, echoVars>>
  /\ mounted
  /\ Update([s \in Slots |-> SampleText], FALSE)
  /\ lastOp' = Op("generate", "-", SampleText)
  /\ cmds' = <<>>
  /\ surfaced' = FALSE
  /\ UNCHANGED <<mounted, native, timers>>

\* clearInputs
ClearInputs(faulty) ==
  /\ UNCHANGED <<twinVars, echoVars>>
  /\ mounted
  /\ Len(timers) < MaxTimers
  /\ LET R == ClearRun(faulty)
     IN  /\ cmds' = R.cmds
         /\ surfaced' = R.threw
         /\ timers' = IF R.threw THEN timers
                      ELSE Append(timers, TimerOf(avail[FirstSlot]))
  /\ Update(ClearedText(ClearRun(faulty).threw), FALSE)
  /\ lastOp' = Op("clear", "-", "")
  /\ UNCHANGED <<mounted, native>>

\* the setTimeout callback of clearInputs
TimerFire(faulty) ==
  /\ UNCHANGED <<twinVars, echoVars>>
  /\ timers # <<>>
  /\ LET t == Head(timers)
         C == FocusCmds(FirstSlot, t.avail, t.live, faulty)
     IN  /\ cmds' = C
         /\ surfaced' = AnyRaised(C)
  /\ timers' = Tail(timers)
  /\ lastOp' = Op("timer", FirstSlot, "")
  /\ UNCHANGED <<mounted, native, text, avail, inputRef, fallbackRef,
                 effectDeps, effectPending, notifications>>

\* the App is unmounted: refs are nulled, pending effects are dropped, timers
\* are not cancelled
Teardown ==
  /\ UNCHANGED <<twinVars, echoVars>>
  /\ mounted
  /\ mounted' = FALSE
  /\ inputRef' = [s \in Slots |-> FALSE]
  /\ fallbackRef' = [s \in Slots |-> FALSE]
  /\ effectPending' = [s \in Slots |-> FALSE]
  /\ timers' = [i \in 1..Len(timers) |-> [timers[i] EXCEPT !.live = FALSE]]
  /\ lastOp' = Op("teardown", "-", "")
  /\ cmds' = <<>>
  /\ surfaced' = FALSE
  /\ UNCHANGED <<native, text, avail, effectDeps, notifications>>

\* the App is mounted again: useState initial values, fresh refs
Mount ==
  /\ UNCHANGED <<twinVars, echoVars>>
  /\ ~mounted
  /\ mounted' = TRUE
  /\ text' = [s \in Slots |-> ""]
  /\ avail' = [s \in Slots |-> InitialFlag]
  /\ inputRef' = [s \in Slots |-> Rendered(InitialFlag) = "native"]
  /\ fallbackRef' = [s \in Slots |-> Rendered(InitialFlag) = "fallback"]
  /\ effectDeps' = [s \in Slots |-> Deps(s)]
  /\ effectPending' = [s \in Slots |-> Rendered(InitialFlag) = "native"]
  /\ notifications' = [s \in Slots |-> <<>>]
  /\ lastOp' = Op("mount", "-", "")
  /\ cmds' = <<>>
  /\ surfaced' = FALSE
  /\ UNCHANGED <<native, timers>>

Next ==
  \/ EffectFire
  \/ \E s \in Slots, t \in Texts, faulty \in SUBSET Handles : OnTextChanged(s, t, faulty)
  \/ Generate
  \/ \E faulty \in SUBSET Handles : ClearInputs(faulty)
  \/ \E faulty \in SUBSET Handles : TimerFire(faulty)
  \/ Teardown
  \/ Mount

Spec == Init /\ [][Next]_vars

\* the scheduler eventually runs a scheduled effect
LiveSpec == Spec /\ WF_vars(EffectFire)

TypeOK ==
  /\ mounted \in BOOLEAN
  /\ native \in [Slots -> BOOLEAN]
  /\ text \in [Slots -> Texts]
  /\ avail \in [Slots -> BOOLEAN]
  /\ inputRef \in [Slots -> BOOLEAN]
  /\ fallbackRef \in [Slots -> BOOLEAN]
  /\ effectPending \in [Slots -> BOOLEAN]
  /\ Len(timers) <= MaxTimers
  /\ surfaced \in BOOLEAN

\* ------------------------------------------- the two wrappers side by side
\* One wrapper of each architecture, mounted alone, given the same lookup
\* result, the same props and the same native events and handle calls.

\* 0 stands for an event without timestamp (the legacy views send none)
Timestamps == {0, 1}

Events == [text : Texts, timestamp : Timestamps]

Methods == {"focus", "clear", "isFocused", "isNativeComponentAvailable"}

Bool(b) == IF b THEN "true" ELSE "false"

Out(k, v) == [kind |-> k, val |-> v]

\* legacy handleChangeText: onChangeText?.(event.nativeEvent.text)
LegacyHandleChangeTextTwice(e, hasCb) ==
  IF hasCb THEN <<Out("onChangeText", e.text), Out("onChangeText", e.text)>> ELSE <<>>

LegacyHandleChangeText(e, hasCb) ==
  IF hasCb THEN <<Out("onChangeText", e.text)>> ELSE <<>>

\* stand-alone wrapper handleChangeText: onChangeText?.(event.nativeEvent.text)
StandaloneHandleChangeText(e, hasCb) ==
  IF hasCb THEN <<Out("onChangeText", e.text)>> ELSE <<>>

\* fabric handleChangeText: the timestamp is only logged
FabricHandleChangeTextNeedsTimestamp(e, hasCb) ==
  IF hasCb /\ e.timestamp # 0 THEN <<Out("onChangeText", e.text)>> ELSE <<>>

FabricHandleChangeText(e, hasCb) ==
  LET t  == e.text
      ts == e.timestamp
  IN  IF hasCb THEN <<Out("onChangeText", t)>> ELSE <<>>

HandleChangeText(w, e, hasCb) ==
  IF w = "legacy" THEN LegacyHandleChangeText(e, hasCb)
                  ELSE FabricHandleChangeText(e, hasCb)

\* the effect body: onNativeStatusChange?.(isNativeAvailable)
StatusCalls(w, hasCb) ==
  IF hasCb THEN <<Out("onNativeStatusChange", Bool(ReportedStatus(w)))>> ELSE <<>>

\* textInputRef.current is set while the wrapper is mounted and renders the
\* native component
WidgetAttached(w) == twin[w].up /\ WrapperRenders(w) = "native"

\* the methods of the imperative handle: what reaches the widget, or the
\* value returned
HandleResultNoNullCheck(w, m) ==
  CASE m = "focus" -> IF WidgetAttached(w) THEN "widget.focus" ELSE "raised"
    [] m = "clear" -> IF WidgetAttached(w) THEN "widget.clear" ELSE "raised"
    [] m = "isFocused" ->
         IF WidgetAttached(w) THEN Bool(twin[w].focused) ELSE "raised"
    [] m = "isNativeComponentAvailable" -> Bool(IsNativeComponentAvailable(w))

HandleResult(w, m) ==
  CASE m = "focus" -> IF WidgetAttached(w) THEN "widget.focus" ELSE "nothing"
    [] m = "clear" -> IF WidgetAttached(w) THEN "widget.clear" ELSE "nothing"
    [] m = "isFocused" ->
         IF WidgetAttached(w) THEN Bool(twin[w].focused) ELSE Bool(FALSE)
    [] m = "isNativeComponentAvailable" -> Bool(IsNativeComponentAvailable(w))

\* the identities a parent can give the onNativeStatusChange callback: the
\* same function again, or a new one
CallbackIds == {0, 1}

\* [isNativeAvailable, onNativeStatusChange] with the callback passed by the
\* parent of the side-by-side run
TwinDeps(w, id) == <<IsNativeAvailable(w), id>>

Unmounted == [up |-> FALSE, pending |-> FALSE, focused |-> FALSE, deps |-> <<>>]

Fits(o) == \A w \in Slots : Len(o[w]) <= MaxTrace

PatternInit ==
  /\ props \in [onChangeText : BOOLEAN, onNativeStatusChange : BOOLEAN,
                statusId : {0}]
  /\ twin = [w \in Slots |-> Unmounted]
  /\ out = [w \in Slots |-> <<>>]
  /\ delivered = NoEvent
  /\ EchoIdle
  /\ mounted = FALSE
  /\ native \in {f \in [Slots -> BOOLEAN] : f["legacy"] = f["fabric"]}
  /\ text = [s \in Slots |-> ""]
  /\ avail = [s \in Slots |-> InitialFlag]
  /\ inputRef = [s \in Slots |-> FALSE]
  /\ fallbackRef = [s \in Slots |-> FALSE]
  /\ effectDeps = [s \in Slots |-> Deps(s)]
  /\ effectPending = [s \in Slots |-> FALSE]
  /\ notifications = [s \in Slots |-> <<>>]
  /\ timers = <<>>
  /\ lastOp = Op("idle", "-", "")
  /\ cmds = <<>>
  /\ surfaced = FALSE

\* both wrappers are mounted: first render, the effect is scheduled
TwinMount ==
  /\ \A w \in Slots : ~twin[w].up
  /\ twin' = [w \in Slots |->
                [up |-> TRUE, pending |-> TRUE, focused |-> FALSE,
                 deps |-> TwinDeps(w, props.statusId)]]
  /\ delivered' = NoEvent
  /\ UNCHANGED <<props, out, appVars, echoVars>>

\* both wrappers render again, with the callback the parent passes now
TwinRender(id) ==
  /\ \A w \in Slots : twin[w].up
  /\ props' = [props EXCEPT !.statusId = id]
  /\ twin' = [w \in Slots |->
                [twin[w] EXCEPT
                   !.pending = @ \/ DepsChanged(twin[w].deps, TwinDeps(w, id)),
                   !.deps = TwinDeps(w, id)]]
  /\ delivered' = NoEvent
  /\ UNCHANGED <<out, appVars, echoVars>>

\* the scheduled effects run
TwinEffect ==
  /\ \E w \in Slots : twin[w].pending
  /\ LET o == [w \in Slots |->
                 IF twin[w].pending
                   THEN out[w] \o StatusCalls(w, props.onNativeStatusChange)
                   ELSE out[w]]
     IN  Fits(o) /\ out' = o
  /\ twin' = [w \in Slots |-> [twin[w] EXCEPT !.pending = FALSE]]
  /\ delivered' = NoEvent
  /\ UNCHANGED <<props, appVars, echoVars>>

\* both native widgets send the same change event
TwinNativeChange(e) ==
  /\ \A w \in Slots : WidgetAttached(w)
  /\ LET o == [w \in Slots |-> out[w] \o HandleChangeText(w, e, props.onChangeText)]
     IN  Fits(o) /\ out' = o
  /\ delivered' = e
  /\ UNCHANGED <<props, twin, appVars, echoVars>>

\* the parent calls the same method on both handles
TwinCall(m) ==
  /\ \A w \in Slots : twin[w].up
  /\ LET o == [w \in Slots |-> Append(out[w], Out(m, HandleResult(w, m)))]
     IN  Fits(o) /\ out' = o
  /\ twin' = [w \in Slots |->
                IF m = "focus" /\ WidgetAttached(w)
                  THEN [twin[w] EXCEPT !.focused = TRUE]
                  ELSE twin[w]]
  /\ delivered' = NoEvent
  /\ UNCHANGED <<props, appVars, echoVars>>

\* both wrappers are unmounted
TwinUnmount ==
  /\ \A w \in Slots : twin[w].up
  /\ twin' = [w \in Slots |-> Unmounted]
  /\ delivered' = NoEvent
  /\ UNCHANGED <<props, out, appVars, echoVars>>

PatternNext ==
  \/ TwinMount
  \/ \E id \in CallbackIds : TwinRender(id)
  \/ TwinEffect
  \/ \E e \in Events : TwinNativeChange(e)
  \/ \E m \in Methods : TwinCall(m)
  \/ TwinUnmount

PatternSpec == PatternInit /\ [][PatternNext]_vars

\* ------------------------------------------------ the App with its widgets
\* The App with both native components present, and the two Android views
\* behind them. Keystrokes and button presses reach JavaScript as events,
\* in the order they happened; a render passes each changed text back to its
\* view as the value prop. The prop update is applied before the next event
\* is handled.

ChangeEvent(s, t, c) == [kind |-> "change", slot |-> s, text |-> t, cause |-> c]

PressEvent(b) == [kind |-> b, slot |-> "-", text |-> "", cause |-> "user"]

Buttons == {"generate", "clear"}

\* NativeTextInputView.setValue: setText only when the text differs; setText
\* runs the TextWatcher, which sends the change event
LegacySetValueUnguarded(w, v) == [text |-> v, fired |-> TRUE]

LegacySetValue(w, v) ==
  IF w # v THEN [text |-> v, fired |-> TRUE]
           ELSE [text |-> w, fired |-> FALSE]

\* FabricNativeTextInputManager.setValue: view.setText(value) always
FabricSetValue(w, v) == [text |-> v, fired |-> TRUE]

SetValue(s, w, v) ==
  IF s = "legacy" THEN LegacySetValue(w, v) ELSE FabricSetValue(w, v)

\* the value prop of slot s is sent to its view by a render that changed it
ValueSent(s, nt) == inputRef[s] /\ WrapperRenders(s) = "native" /\ nt[s] # text[s]

SetCall(s, nt) ==
  [slot |-> s, value |-> nt[s], before |-> widget[s],
   after |-> SetValue(s, widget[s], nt[s]).text,
   fired |-> SetValue(s, widget[s], nt[s]).fired]

\* the setValue calls of the render that commits the texts nt, legacy first
SetCalls(nt) ==
  (IF ValueSent("legacy", nt) THEN <<SetCall("legacy", nt)>> ELSE <<>>)
    \o (IF ValueSent("fabric", nt) THEN <<SetCall("fabric", nt)>> ELSE <<>>)

\* the change events these calls make the views send
Fired(calls, c) ==
  LET F[i \in 0..Len(calls)] ==
        IF i = 0 THEN <<>>
        ELSE IF calls[i].fired
          THEN Append(F[i-1], ChangeEvent(calls[i].slot, calls[i].after, c))
          ELSE F[i-1]
  IN  F[Len(calls)]

\* the render of the texts nt reaches the views
Render(nt, c) ==
  /\ setCalls' = SetCalls(nt)
  /\ widget' = [s \in Slots |->
                  IF ValueSent(s, nt) THEN SetCall(s, nt).after ELSE widget[s]]
  /\ events' = Tail(events) \o Fired(SetCalls(nt), c)

\* both lookups succeeded, the wrappers have reported, nothing is typed yet
EchoInit ==
  /\ TwinIdle
  /\ EchoIdle
  /\ mounted = TRUE
  /\ native = [s \in Slots |-> TRUE]
  /\ text = [s \in Slots |-> ""]
  /\ avail = [s \in Slots |-> TRUE]
  /\ inputRef = [s \in Slots |-> TRUE]
  /\ fallbackRef = [s \in Slots |-> FALSE]
  /\ effectDeps = [s \in Slots |-> Deps(s)]
  /\ effectPending = [s \in Slots |-> FALSE]
  /\ notifications = [s \in Slots |-> <<TRUE>>]
  /\ timers = <<>>
  /\ lastOp = Op("effect", "-", "")
  /\ cmds = <<>>
  /\ surfaced = FALSE

\* the user edits the text of a view: afterTextChanged sends the change event
UserTypes(s, t) ==
  /\ typed < MaxUser
  /\ Emits(s)
  /\ t # widget[s]
  /\ widget' = [widget EXCEPT ![s] = t]
  /\ events' = Append(events, ChangeEvent(s, t, "user"))
  /\ typed' = typed + 1
  /\ setCalls' = <<>>
  /\ lastOp' = Op("typed", s, t)
  /\ cmds' = <<>>
  /\ surfaced' = FALSE
  /\ UNCHANGED <<mounted, native, text, avail, inputRef, fallbackRef,
                 effectDeps, effectPending, notifications, timers, twinVars>>

\* the user presses Generate or Clear
UserPresses(b) ==
  /\ typed < MaxUser
  /\ mounted
  /\ events' = Append(events, PressEvent(b))
  /\ typed' = typed + 1
  /\ setCalls' = <<>>
  /\ lastOp' = Op("pressed", "-", "")
  /\ cmds' = <<>>
  /\ surfaced' = FALSE
  /\ UNCHANGED <<mounted, native, text, avail, inputRef, fallbackRef,
                 effectDeps, effectPending, notifications, timers, widget,
                 twinVars>>

\* the oldest event is a change event: the wrapper forwards it to
\* handleLegacyChange / handleFabricChange
HandleChange ==
  /\ mounted
  /\ events # <<>>
  /\ Head(events).kind = "change"
  /\ LET e == Head(events)
     IN  /\ cmds' = ChangeCmds(e.slot, e.text, {})
         /\ surfaced' = AnyRaised(ChangeCmds(e.slot, e.text, {}))
         /\ Update(ChangedText(e.slot, e.text), FALSE)
         /\ Render(ChangedText(e.slot, e.text), "change")
         /\ lastOp' = Op("change", e.slot, e.text)
  /\ UNCHANGED <<mounted, native, timers, typed, twinVars>>

\* the oldest event is a press of Generate: generateText
HandleGenerate ==
  /\ mounted
  /\ events # <<>>
  /\ Head(events).kind = "generate"
  /\ Update([s \in Slots |-> SampleText], FALSE)
  /\ Render([s \in Slots |-> SampleText], "generate")
  /\ lastOp' = Op("generate", "-", SampleText)
  /\ cmds' = <<>>
  /\ surfaced' = FALSE
  /\ UNCHANGED <<mounted, native, timers, typed, twinVars>>

\* the oldest event is a press of Clear: clearInputs. The clear() of a
\* wrapper handle ends in setNativeProps({text: ''}); the views have no text
\* prop, so the views are emptied by the value prop of the render.
HandleClear ==
  /\ mounted
  /\ events # <<>>
  /\ Head(events).kind = "clear"
  /\ Len(timers) < MaxTimers
  /\ LET R == ClearRun({})
     IN  /\ cmds' = R.cmds
         /\ surfaced' = R.threw
         /\ timers' = IF R.threw THEN timers
                      ELSE Append(timers, TimerOf(avail[FirstSlot]))
  /\ Update(ClearedText(ClearRun({}).threw), FALSE)
  /\ Render(ClearedText(ClearRun({}).threw), "clear")
  /\ lastOp' = Op("clear", "-", "")
  /\ UNCHANGED <<mounted, native, typed, twinVars>>

EchoNext ==
  \/ \E s \in Slots, t \in Texts : UserTypes(s, t)
  \/ \E b \in Buttons : UserPresses(b)
  \/ HandleChange
  \/ HandleGenerate
  \/ HandleClear
  \/ \E faulty \in SUBSET Handles : TimerFire(faulty)

EchoSpec == EchoInit /\ [][EchoNext]_vars

\* JavaScript eventually handles the oldest event and runs a due timer
EchoLiveSpec ==
  /\ EchoSpec
  /\ WF_vars(HandleChange)
  /\ WF_vars(HandleGenerate)
  /\ WF_vars(HandleClear)
  /\ WF_vars(\E faulty \in SUBSET Handles : TimerFire(faulty))

\* ------------------------------------------------------------- properties
LastCmdsAre(o) == \A i \in 1..Len(cmds') : cmds'[i].op = o

\* C1: with both slots on screen, a change event of slot s that reports the
\* empty string while the other slot's text is non-empty issues exactly one
\* focus call, through the other slot's active ref: the wrapper handle when
\* that slot's flag is true, else its fallback TextInput.
C1_AutoAdvance ==
  [][\A s \in Slots :
       (lastOp' = Op("change", s, "") /\ text[Other(s)] # "")
         => /\ Len(cmds') = 1
            /\ cmds'[1].op = "focus"
            /\ cmds'[1].slot = Other(s)
            /\ cmds'[1].kind = IF avail[Other(s)] THEN "native" ELSE "fallback"]_vars

C1_Witness ==
  /\ lastOp.op = "change" /\ lastOp.text = ""
  /\ Len(cmds) = 1
  /\ cmds[1].op = "focus" /\ cmds[1].kind = "fallback"
  /\ cmds[1].slot = Other(lastOp.slot)

\* C2: clearInputs calls clear() for every slot even if one clear() raises:
\* when the first slot's clear() raised, the second slot's clear() was still
\* called.
C2_ClearAllSurvivesFailure ==
  (lastOp.op = "clear" /\ Len(cmds) >= 1 /\ cmds[1].slot = "legacy" /\ cmds[1].raised)
    => \E i \in 1..Len(cmds) : cmds[i].op = "clear" /\ cmds[i].slot = "fabric"

\* C3: every clearInputs call schedules its deferred callback, and when the
\* callback of a still-mounted App fires, the first slot (legacy) receives
\* exactly one focus() call and the fabric slot none.
C3_ClearAllFocusesFirst ==
  [][/\ lastOp'.op = "clear" => Len(timers') = Len(timers) + 1
     /\ (lastOp'.op = "timer" /\ Head(timers).live)
          => /\ Len(cmds') = 1
             /\ cmds'[1].op = "focus"
             /\ cmds'[1].slot = FirstSlot]_vars

\* C4: clearInputs itself makes no focus() call; the focus() is made by the
\* timer callback, which runs in a later step and only for a timer that
\* was already pending, that is after the clear() calls of its clearInputs.
C4_FocusDeferred ==
  [][/\ lastOp'.op = "clear" => LastCmdsAre("clear")
     /\ lastOp'.op = "timer"
          => /\ timers # <<>>
             /\ timers' = Tail(timers)
             /\ LastCmdsAre("focus")
     /\ (\E i \in 1..Len(cmds') : cmds'[i].op = "focus")
          => lastOp'.op \in {"timer", "change"}]_vars

C4_Witness ==
  /\ lastOp.op = "timer"
  /\ Len(cmds) = 1
  /\ cmds[1].op = "focus" /\ cmds[1].slot = FirstSlot

\* C5: a timer callback that fires after the widget it would focus was
\* unmounted (the wrapper was replaced by the fallback, or the App was torn
\* down) makes no call and raises no error; no call of a callback ever goes
\* through a ref that is not attached.
C5_StaleCallbackNoOp ==
  [][lastOp'.op = "timer"
       => LET t == Head(timers)
              k == IF t.avail THEN "native" ELSE "fallback"
              stale == ~t.live \/ ~RefSet(FirstSlot, k)
          IN  /\ \A i \in 1..Len(cmds') :
                   t.live /\ RefSet(cmds'[i].slot, cmds'[i].kind)
              /\ stale => (cmds' = <<>> /\ ~surfaced')]_vars

\* the callback fired with the App mounted and the legacy wrapper replaced
\* by the fallback, and called nothing
C5_Witness ==
  /\ lastOp.op = "timer"
  /\ cmds = <<>>
  /\ ~surfaced
  /\ mounted /\ ~avail[FirstSlot] /\ ~inputRef[FirstSlot]

\* C6: a change event that reports the text the slot already has issues no
\* focus call; in particular a second "" in a row issues none.
C6_RepeatedChangeNoFocus ==
  [][(lastOp'.op = "change" /\ lastOp'.text = text[lastOp'.slot])
       => cmds' = <<>>]_vars

\* C7: a focus() that raises in a change handler or in the timer callback is
\* caught, never surfaced; the text of the triggering slot is still updated.
C7_FocusFailureCaught ==
  /\ lastOp.op \in {"change", "timer"} => ~surfaced
  /\ lastOp.op = "change" => text[lastOp.slot] = lastOp.text

\* C8: in a mounted App each slot's flag eventually equals the result of the
\* native lookup; with the native component missing the fallback is
\* eventually rendered, and stays rendered while the App stays mounted.
C8_AvailabilityResolves ==
  /\ \A s \in Slots : mounted ~> (~mounted \/ avail[s] = native[s])
  /\ \A s \in Slots : (mounted /\ ~native[s]) ~> (~mounted \/ fallbackRef[s])
  /\ [][\A s \in Slots :
          (mounted /\ mounted' /\ ~native[s] /\ fallbackRef[s]) => fallbackRef'[s]]_vars

C8_Witness ==
  /\ mounted
  /\ \E s \in Slots : ~native[s] /\ ~avail[s] /\ fallbackRef[s] /\ ~inputRef[s]
  /\ \E s \in Slots : native[s] /\ avail[s] /\ notifications[s] = <<TRUE>>

\* C9: right after the wrapper of slot s called onNativeStatusChange(v), the
\* App's flag of slot s is v.
C9_ReportThenQuery ==
  [][\A s \in Slots :
       Len(notifications'[s]) > Len(notifications[s])
         => avail'[s] = notifications'[s][Len(notifications'[s])]]_vars

C9_Witness ==
  /\ \E s \in Slots : notifications[s] = <<FALSE>> /\ ~avail[s]
  /\ \E s \in Slots : notifications[s] = <<TRUE>> /\ avail[s]

\* C10: during one mount of a wrapper, whatever the number of re-renders,
\* onNativeStatusChange is called at most once.
C10_NotifiedOnce ==
  \A s \in Slots : Len(notifications[s]) <= 1

C10_Witness ==
  /\ mounted
  /\ \A s \in Slots : notifications[s] = <<TRUE>> /\ inputRef[s]
  /\ text["legacy"] = "a" /\ text["fabric"] = "a"

\* C11: once a slot's wrapper has reported, no text change, clearInputs,
\* generateText, timer callback, effect or teardown changes the slot's flag;
\* only mounting the App again resets it (to the useState initial value,
\* with no report recorded).
C11_AvailabilitySettled ==
  [][\A s \in Slots :
       /\ (notifications[s] # <<>> /\ lastOp'.op # "mount") => avail'[s] = avail[s]
       /\ lastOp'.op = "mount" => (avail'[s] = TRUE /\ notifications'[s] = <<>>)]_vars

C11_Witness ==
  \E s \in Slots :
    /\ notifications[s] = <<FALSE>>
    /\ ~avail[s]
    /\ lastOp = Op("change", s, "a")

\* C12 (as claimed): a mounted slot whose wrapper has not reported yet is
\* read as unknown, neither available nor unavailable.
C12_UnknownBeforeReport ==
  \A s \in Slots :
    (mounted /\ notifications[s] = <<>>) => IsAvailable(s) = "unknown"

\* C12 (amended): a mounted slot whose wrapper has not reported yet is read
\* as available: its flag is true and the native wrapper is what is rendered.
C12_AvailableBeforeReport ==
  \A s \in Slots :
    (mounted /\ notifications[s] = <<>>)
      => (IsAvailable(s) = "available" /\ inputRef[s] /\ ~fallbackRef[s])

C12_Witness ==
  /\ mounted
  /\ lastOp.op = "clear"
  /\ \E s \in Slots :
       /\ notifications[s] = <<>>
       /\ \E i \in 1..Len(cmds) : cmds[i] = Cmd("clear", s, "native", FALSE)

\* C13: while the App is mounted, each slot has exactly one of the native
\* wrapper and the fallback TextInput mounted, the wrapper if and only if
\* the slot's flag is true.
C13_ParentControlsRendering ==
  mounted =>
    \A s \in Slots :
      /\ inputRef[s] # fallbackRef[s]
      /\ inputRef[s] <=> avail[s]

C13_Witness ==
  /\ mounted
  /\ lastOp.op = "generate"
  /\ \E s \in Slots : ~avail[s] /\ fallbackRef[s] /\ ~inputRef[s]
  /\ \E s \in Slots : avail[s] /\ inputRef[s] /\ ~fallbackRef[s]

C15_ClearAllEmptiesTexts ==
  lastOp.op = "clear" => \A s \in Slots : text[s] = ""

C15_Witness ==
  /\ lastOp.op = "clear"
  /\ surfaced
  /\ \A s \in Slots : text[s] = ""
  /\ avail["legacy"] /\ ~avail["fabric"]

\* C16: after a change event of slot S with text t, the text of S is t,
\* with or without an auto-advance focus call, also when that call raised.
C16_TextFollowsChange ==
  lastOp.op = "change" => text[lastOp.slot] = lastOp.text

C16_Witness ==
  /\ lastOp.op = "change"
  /\ lastOp.text = ""
  /\ Len(cmds) = 1
  /\ surfaced
  /\ text[lastOp.slot] = ""

\* C17: every focus or clear call goes through a ref of one of the two
\* slots, and the focus call of a change handler never targets the slot whose
\* change event triggered it.
C17_CommandsTargetSlots ==
  /\ \A i \in 1..Len(cmds) :
       /\ cmds[i].op \in {"focus", "clear"}
       /\ <<cmds[i].slot, cmds[i].kind>> \in Handles
  /\ lastOp.op = "change" => \A i \in 1..Len(cmds) : cmds[i].slot # lastOp.slot

C17_Witness ==
  /\ lastOp = Op("change", "fabric", "")
  /\ cmds = <<Cmd("focus", "legacy", "native", FALSE)>>

\* C18: the value a wrapper passes to onNativeStatusChange is the value
\* isNativeComponentAvailable() of its handle returns, when it reports and
\* for as long as the wrapper stays mounted.
C18_StatusMechanismsAgree ==
  /\ [](\A s \in Slots :
          inputRef[s] =>
            \A i \in 1..Len(notifications[s]) :
              notifications[s][i] = IsNativeComponentAvailable(s))
  /\ [][\A s \in Slots :
          Len(notifications'[s]) > Len(notifications[s])
            => notifications'[s][Len(notifications'[s])] = IsNativeComponentAvailable(s)]_vars

C18_Witness ==
  /\ lastOp.op = "effect"
  /\ \E s \in Slots : inputRef[s] /\ native[s] /\ notifications[s] = <<TRUE>>
  /\ \E s \in Slots : ~native[s] /\ notifications[s] = <<FALSE>>

\* C19: given the same lookup result, the same props and the same sequence
\* of mounts, renders, native change events and handle calls, the legacy and
\* the fabric wrapper make the same onNativeStatusChange and onChangeText
\* calls and give the same handle results, and are in the same state.
C19_WrappersEquivalent ==
  /\ out["legacy"] = out["fabric"]
  /\ twin["legacy"] = twin["fabric"]

C19_Witness ==
  /\ out["legacy"] = out["fabric"]
  /\ \E i, j, k \in 1..Len(out["fabric"]) :
       /\ out["fabric"][i] = Out("onNativeStatusChange", "true")
       /\ out["fabric"][j] = Out("onChangeText", "a")
       /\ out["fabric"][k] = Out("focus", "widget.focus")

\* C21: a change event of slot s issues no focus call when its text is
\* non-empty, and none when its text is empty and the other slot's text (as
\* the handler reads it) is empty too.
C21_AutoAdvanceOnlyUnderRule ==
  [][\A s \in Slots, t \in Texts :
       (lastOp' = Op("change", s, t) /\ (t # "" \/ text[Other(s)] = ""))
         => cmds' = <<>>]_vars

\* an empty change event arrived with the other slot empty and on screen,
\* and nothing was called
C21_Witness ==
  \E s \in Slots :
    /\ lastOp = Op("change", s, "")
    /\ text[Other(s)] = ""
    /\ fallbackRef[Other(s)]
    /\ cmds = <<>>

\* C22: clearInputs causes no auto-advance: the change event a view sends
\* because the render of clearInputs emptied it issues no focus call when
\* its handler runs; the one focus call clearInputs leads to is the deferred
\* one.
C22_ClearAllNoAutoAdvance ==
  [][(/\ lastOp'.op = "change"
      /\ events # <<>>
      /\ Head(events).kind = "change"
      /\ Head(events).cause = "clear")
       => cmds' = <<>>]_vars

\* the texts of the App and of the views agree and no event is on its way
Settled ==
  /\ events = <<>>
  /\ \A s \in Slots : widget[s] = text[s]

\* C27: after the user's last keystroke or press, the texts of the App and
\* of the views become equal and stay equal, with no event left on its way.
C27_EchoConverges == <>[]Settled

\* C28: a setValue(v) call on the legacy view that holds v already leaves
\* its text alone and sends no change event; every change event the legacy
\* view sends after a setValue call comes with a change of its text.
C28_LegacySetValueGuarded ==
  \A i \in 1..Len(setCalls) :
    setCalls[i].slot = "legacy"
      => /\ setCalls[i].before = setCalls[i].value
              => (setCalls[i].after = setCalls[i].before /\ ~setCalls[i].fired)
         /\ setCalls[i].fired => setCalls[i].after # setCalls[i].before

\* a keystroke was echoed back as the value prop to the legacy view, which
\* held that text already
C28_Witness ==
  /\ lastOp = Op("change", "legacy", "a")
  /\ setCalls = <<[slot |-> "legacy", value |-> "a", before |-> "a",
                   after |-> "a", fired |-> FALSE]>>

\* C23: when the first slot's flag changed between clearInputs and the
\* firing of its timer callback in a still-mounted App, the callback makes
\* its one focus call through the ref that matches the flag as it is when
\* the callback fires.
C23_DeferredFocusUsesCurrentFlag ==
  [][(/\ lastOp'.op = "timer"
      /\ Head(timers).live
      /\ Head(timers).avail # avail[FirstSlot])
       => /\ Len(cmds') = 1
          /\ cmds'[1].op = "focus"
          /\ cmds'[1].slot = FirstSlot
          /\ cmds'[1].kind = IF avail[FirstSlot] THEN "native" ELSE "fallback"]_vars

\* the clear() calls clearInputs made for slot s
ClearCallsOf(s) == {i \in 1..Len(cmds') : cmds'[i].op = "clear" /\ cmds'[i].slot = s}

\* C24: clearInputs calls clear() through exactly one ref of each slot that
\* has a ref attached: the wrapper handle when the slot's flag is true and
\* that handle is attached, else the fallback TextInput; never through both
\* refs of a slot.
C24_ClearsActiveHandle ==
  [][lastOp'.op = "clear"
       => \A s \in Slots :
            /\ Cardinality(ClearCallsOf(s)) <= 1
            /\ (inputRef[s] \/ fallbackRef[s]) => Cardinality(ClearCallsOf(s)) = 1
            /\ \A i \in ClearCallsOf(s) :
                 cmds'[i].kind = IF avail[s] /\ inputRef[s] THEN "native"
                                                            ELSE "fallback"]_vars

\* the callback calls a native change event e has to lead to
Forwarded(e, hasCb) == IF hasCb THEN <<Out("onChangeText", e.text)>> ELSE <<>>

\* C25: each wrapper turns a native change event into exactly one
\* onChangeText call with the event's text as it is, and into none when no
\* onChangeText was passed; the timestamp of the event makes no difference.
\* The handler of the stand-alone wrapper does the same.
C25_ChangeEventsForwarded ==
  [][delivered' \in Events
       => /\ \A w \in Slots :
               out'[w] = out[w] \o Forwarded(delivered', props.onChangeText)
          /\ StandaloneHandleChangeText(delivered', props.onChangeText)
               = Forwarded(delivered', props.onChangeText)]_vars

C25_Witness ==
  /\ delivered = [text |-> "a", timestamp |-> 1]
  /\ props.onChangeText
  /\ \A w \in Slots :
       /\ Len(out[w]) = 2
       /\ out[w][1] = Out("onChangeText", SampleText)
       /\ out[w][2] = Out("onChangeText", "a")

\* C26: a method called through the handle of a mounted wrapper that has no
\* native widget attached does nothing and raises nothing: focus() and
\* clear() reach no widget, isFocused() returns false, and the wrapper's
\* state is as before.
C26_HandleSafeWithoutWidget ==
  [][\A w \in Slots :
       (/\ twin[w].up
        /\ ~WidgetAttached(w)
        /\ Len(out'[w]) = Len(out[w]) + 1
        /\ out'[w][Len(out'[w])].kind \in Methods)
         => LET o == out'[w][Len(out'[w])]
            IN  /\ o.kind \in {"focus", "clear"} => o.val = "nothing"
                /\ o.kind = "isFocused" => o.val = "false"
                /\ o.val # "raised"
                /\ twin'[w] = twin[w]]_vars

C26_Witness ==
  /\ \A w \in Slots : twin[w].up /\ ~WidgetAttached(w) /\ ~twin[w].focused
  /\ \A w \in Slots :
       out[w] = <<Out("focus", "nothing"), Out("isFocused", "false"),
                  Out("clear", "nothing")>>

\* the wrapper of slot x called onNativeStatusChange in this step
Reported(x) == Len(notifications'[x]) > Len(notifications[x])

\* C29: a change event of slot s leaves the other slot's text alone, and no
\* handler changes a flag: within a mount a flag changes only in a step in
\* which that slot's own wrapper reports (a pending report runs before the
\* render a handler asks for), and to the reported value; a step that only
\* runs reports changes no text.
C29_SlotIsolation ==
  [][/\ \A s \in Slots, t \in Texts :
          lastOp' = Op("change", s, t) => text'[Other(s)] = text[Other(s)]
     /\ \A x \in Slots :
          (avail'[x] # avail[x] /\ lastOp'.op # "mount")
            => (Reported(x) /\ avail'[x] = notifications'[x][Len(notifications'[x])])
     /\ \A x \in Slots :
          (lastOp'.op = "change" /\ ~Reported(x)) => avail'[x] = avail[x]
     /\ lastOp'.op = "effect" => text' = text]_vars

\* a change event of the legacy slot arrived with the flags of the two slots
\* different and the fabric text set
C29_Witness ==
  /\ lastOp = Op("change", "legacy", "a")
  /\ text = [legacy |-> "a", fabric |-> SampleText]
  /\ avail = [legacy |-> TRUE, fabric |-> FALSE]
  /\ notifications = [legacy |-> <<TRUE>>, fabric |-> <<FALSE>>]

====
